---- MODULE Spec2Model ----
(***************************************************************************)
(* hyprshutdown: the process lifecycle of src/main.cpp.                    *)
(*                                                                         *)
(* One invocation creates up to three process images: the invoked process  *)
(* ("orig"), the child of the first fork of forkoff ("child1") and the     *)
(* child of the second fork ("child2").  Every image runs the same code;   *)
(* pc[p] is the statement image p executes next.  fork() copies the        *)
(* parent's memory (snapshot, State singleton), signal dispositions,       *)
(* umask, session and environment into the child.                          *)
(***************************************************************************)
EXTENDS Integers, Sequences, FiniteSets, TLC

\* ------------------------------------------------------------------ bounds
\* Environment values are strings over the characters 1..MaxChar.
MaxChar == 2
\* --vt is absent or takes a value in -1..MaxVt, or the two-digit value 12.
MaxVt == 1

\* ------------------------------------------------------- program constants
EXIT_SUCCESS == 0
EXIT_FAILURE == 1

\* ------------------------------------------------------------ environment
HIS_NAME == "HYPRLAND_INSTANCE_SIGNATURE"
XDG_NAME == "XDG_RUNTIME_DIR"
WAYLAND_NAME == "WAYLAND_DISPLAY"
\* A variable the program never names, standing for the rest of environ.
OTHER_NAME == "PATH"

Tracked == {HIS_NAME, XDG_NAME, WAYLAND_NAME}
EnvNames == Tracked \cup {OTHER_NAME}

\* A C string is a sequence of characters; getenv returns NULL or a string.
Strings == {<<>>} \cup {<<c>> : c \in 1..MaxChar}
NULL == [isSet |-> FALSE, val |-> <<>>]
Ptr(s) == [isSet |-> TRUE, val |-> s]
EnvValues == {NULL} \cup {Ptr(s) : s \in Strings}

\* The environments an invocation may start in.
Envs == {e \in [EnvNames -> EnvValues] : e[OTHER_NAME] \in {NULL, Ptr(<<1>>)}}

getenv(e, name) == e[name]

setenv(e, name, value, overwrite) ==
    IF e[name].isSet /\ overwrite = 0 THEN e ELSE [e EXCEPT ![name] = Ptr(value)]

\* SEnvVars env; -- three default-constructed (empty) std::string fields.
EmptySEnvVars ==
    [hyprlandInstanceSignature |-> <<>>, xdgRuntimeDir |-> <<>>, waylandDisplay |-> <<>>]

\* std::string s; if (p) s = p;
AssignIfSet(p) == IF p.isSet THEN p.val ELSE <<>>

captureEnvVars(e) ==
    [hyprlandInstanceSignature |-> AssignIfSet(getenv(e, HIS_NAME)),
     xdgRuntimeDir             |-> AssignIfSet(getenv(e, XDG_NAME)),
     waylandDisplay            |-> AssignIfSet(getenv(e, WAYLAND_NAME))]

\* if (!field.empty()) setenv(name, field.c_str(), 1);
RestoreField_NoOverwrite(e, name, field) ==
    IF field # <<>> THEN setenv(e, name, field, 0) ELSE e

RestoreField_Append(e, name, field) ==
    IF field # <<>>
    THEN [e EXCEPT ![name] = Ptr((IF @.isSet THEN @.val ELSE <<>>) \o field)]
    ELSE e

RestoreField_Always(e, name, field) == setenv(e, name, field, 1)

RestoreField(e, name, field) ==
    IF field # <<>> THEN setenv(e, name, field, 1) ELSE e

restoreEnvVars(env, e) ==
    LET e1 == RestoreField(e, HIS_NAME, env.hyprlandInstanceSignature)
        e2 == RestoreField(e1, XDG_NAME, env.xdgRuntimeDir)
    IN  RestoreField(e2, WAYLAND_NAME, env.waylandDisplay)

\* ------------------------------------------------------------ command line
VtNumbers == ((0 - 1)..MaxVt) \cup {12}
VtValues == {[has |-> FALSE, val |-> 0]} \cup {[has |-> TRUE, val |-> n] : n \in VtNumbers}

\* What the parser reports after parse(): whether parsing succeeded and the
\* value of each option.  When parsing fails no option is ever read.
Args ==
    {a \in [parseOk : BOOLEAN, help : BOOLEAN, dryRun : BOOLEAN, noExit : BOOLEAN,
            noFork : BOOLEAN, vt : VtValues] :
        a.parseOk \/ (~a.help /\ ~a.dryRun /\ ~a.noExit /\ ~a.noFork /\ ~a.vt.has)}

\* std::format("sudo -n chvt {}", n): the decimal digits of n, most
\* significant first, with a leading "-" when n is negative.
Digit(d) == <<"0", "1", "2", "3", "4", "5", "6", "7", "8", "9">>[d + 1]

RECURSIVE FormatNat(_)
FormatNat(n) ==
    IF n < 10 THEN <<Digit(n)>> ELSE Append(FormatNat(n \div 10), Digit(n % 10))

FormatInt(n) == IF n < 0 THEN <<"-">> \o FormatNat(0 - n) ELSE FormatNat(n)

ChvtCommand(n) ==
    [file |-> "/bin/sh", args |-> <<"-c", [prefix |-> "sudo -n chvt ", number |-> FormatInt(n)]>>]

\* --------------------------------------------------------------- decisions
ParseFailed_Never(a) == FALSE

\* if (const auto ret = parser.parse(); !ret)
ParseFailed(a) == ~a.parseOk

HelpRequested_Never(a) == FALSE

\* if (parser.getBool("help").value_or(false))
HelpRequested(a) == a.help

\* if (parser.getBool("dry-run").value_or(false))
DryRunRequested(a) == a.dryRun

HISMissing_NullOnly(e) == ~getenv(e, HIS_NAME).isSet

\* if (!HIS || HIS[0] == '\0')
HISMissing(e) ==
    LET HIS == getenv(e, HIS_NAME) IN ~HIS.isSet \/ Len(HIS.val) = 0

Daemonize_Always(a) == TRUE

\* if (!parser.getBool("no-fork").value_or(false)) forkoff(envVars);
Daemonize(a) == ~a.noFork

ForkFailed_Never(pid) == FALSE

\* if (pid < 0) exit(EXIT_FAILURE);
ForkFailed(pid) == pid < 0

IsForkParent_Never(pid) == FALSE

IsForkParent_Inverted(pid) == pid = 0

\* if (pid > 0) exit(EXIT_SUCCESS);
IsForkParent(pid) == pid > 0

\* g_ui->m_noExit = parser.getBool("no-exit").value_or(false) || m_dryRun
UINoExit(a, dryRun) == a.noExit \/ dryRun

VtSwitchWanted_IgnoresDryRun(vtSwitch, dryRun) == vtSwitch.has /\ vtSwitch.val > 0

VtSwitchWanted_AboveOne(vtSwitch, dryRun) == vtSwitch.has /\ vtSwitch.val > 1 /\ ~dryRun

VtSwitchWanted_NonNegative(vtSwitch, dryRun) == vtSwitch.has /\ vtSwitch.val >= 0 /\ ~dryRun

\* if (vtSwitch && *vtSwitch > 0 && !State::state()->m_dryRun)
VtSwitchWanted(vtSwitch, dryRun) == vtSwitch.has /\ vtSwitch.val > 0 /\ ~dryRun

\* ------------------------------------------------------------------- state
Procs == {"orig", "child1", "child2"}

VARIABLES
    args,       \* the parsed command line (never changes)
    pc,         \* pc[p]: the statement image p executes next ("none": not created)
    status,     \* status[p]: <<>> while p runs, <<code>> once it has exited
    environ,    \* environ[p]: the environment of image p
    envVars,    \* envVars[p]: main's snapshot, in p's memory
    m_dryRun,   \* State::state()->m_dryRun, in p's memory
    inited,     \* inited[p]: State::state()->init() succeeded in p
    g_ui,       \* g_ui[p]: the CUI object of p
    pid,        \* pid[p]: forkoff's local, the result of p's last fork
    sighup,     \* sighup[p]: disposition of SIGHUP in p
    umask,      \* umask[p]: file-creation mask of p
    sid,        \* sid[p]: the session p belongs to (named by its leader)
    ctty,       \* ctty[p]: p has a controlling terminal
    hist,       \* hist[p]: the operations image p has performed, in order
    runner,     \* the subprocesses handed to CProcess::runAsync, in order
    srcEnv, tgtEnv0, tgtEnv1, tgtEnv, snap, epc   \* the capture/restore harness (SpecEnv)

procVars == <<args, pc, status, environ, envVars, m_dryRun, inited, g_ui, pid, sighup,
              umask, sid, ctty, hist, runner>>
envHarnessVars == <<srcEnv, tgtEnv0, tgtEnv1, tgtEnv, snap, epc>>
vars == <<procVars, envHarnessVars>>

NoUI == [exists |-> FALSE, m_noExit |-> FALSE]

\* The capture/restore harness is idle while the lifecycle runs.
HarnessIdle ==
    /\ srcEnv = [n \in EnvNames |-> NULL]
    /\ tgtEnv0 = [n \in EnvNames |-> NULL]
    /\ tgtEnv1 = [n \in EnvNames |-> NULL]
    /\ tgtEnv = [n \in EnvNames |-> NULL]
    /\ snap = EmptySEnvVars
    /\ epc = "idle"

Init ==
    /\ args \in Args
    /\ pc = [p \in Procs |-> IF p = "orig" THEN "parse" ELSE "none"]
    /\ status = [p \in Procs |-> <<>>]
    /\ \E e \in Envs :
          /\ e[OTHER_NAME].isSet     \* a shell always exports something else
          /\ environ = [p \in Procs |-> IF p = "orig" THEN e ELSE [n \in EnvNames |-> NULL]]
    /\ envVars = [p \in Procs |-> EmptySEnvVars]
    /\ m_dryRun = [p \in Procs |-> FALSE]
    /\ inited = [p \in Procs |-> FALSE]
    /\ g_ui = [p \in Procs |-> NoUI]
    /\ pid = [p \in Procs |-> 0]
    /\ sighup = [p \in Procs |-> "SIG_DFL"]
    /\ umask = [p \in Procs |-> 18]     \* 022, inherited from the invoking shell
    /\ sid = [p \in Procs |-> "shell"]
    /\ ctty = [p \in Procs |-> p = "orig"]
    /\ hist = [p \in Procs |-> <<>>]
    /\ runner = <<>>
    /\ HarnessIdle

\* ----------------------------------------------------------------- helpers
Did(p, op) == \E i \in 1..Len(hist[p]) : hist[p][i] = op

Record(p, op) == hist' = [hist EXCEPT ![p] = Append(@, op)]

\* exit(code) / return code from main
Exit(p, code) ==
    /\ pc' = [pc EXCEPT ![p] = "done"]
    /\ status' = [status EXCEPT ![p] = <<code>>]

Goto(p, label) ==
    /\ pc' = [pc EXCEPT ![p] = label]
    /\ UNCHANGED status

\* ------------------------------------------------------------------ main()
\* lines 87-90: parser.parse() failed -> return 1
Parse(p) ==
    /\ pc[p] = "parse"
    /\ IF ParseFailed(args) THEN Exit(p, EXIT_FAILURE) ELSE Goto(p, "help")
    /\ UNCHANGED <<args, environ, envVars, m_dryRun, inited, g_ui, pid, sighup, umask,
                   sid, ctty, hist, runner, envHarnessVars>>

\* lines 92-98: --help prints the description and returns 0; otherwise the
\* log level is set (logging is not part of the state) and main goes on.
Help(p) ==
    /\ pc[p] = "help"
    /\ IF HelpRequested(args) THEN Exit(p, EXIT_SUCCESS) ELSE Goto(p, "dryrun")
    /\ UNCHANGED <<args, environ, envVars, m_dryRun, inited, g_ui, pid, sighup, umask,
                   sid, ctty, hist, runner, envHarnessVars>>

\* lines 100-101: State::state()->m_dryRun = true
MarkDryRun(p) ==
    /\ pc[p] = "dryrun"
    /\ IF DryRunRequested(args)
          THEN /\ m_dryRun' = [m_dryRun EXCEPT ![p] = TRUE]
               /\ Record(p, "markDryRun")
          ELSE UNCHANGED <<m_dryRun, hist>>
    /\ Goto(p, "capture")
    /\ UNCHANGED <<args, environ, envVars, inited, g_ui, pid, sighup, umask, sid, ctty,
                   runner, envHarnessVars>>

\* line 105: const auto envVars = captureEnvVars();
Capture(p) ==
    /\ pc[p] = "capture"
    /\ envVars' = [envVars EXCEPT ![p] = captureEnvVars(environ[p])]
    /\ Record(p, "capture")
    /\ Goto(p, "checkHIS")
    /\ UNCHANGED <<args, environ, m_dryRun, inited, g_ui, pid, sighup, umask, sid, ctty,
                   runner, envHarnessVars>>

\* lines 107-111: HYPRLAND_INSTANCE_SIGNATURE missing or empty -> return 1
CheckHIS(p) ==
    /\ pc[p] = "checkHIS"
    /\ IF HISMissing(environ[p]) THEN Exit(p, EXIT_FAILURE) ELSE Goto(p, "branch")
    /\ UNCHANGED <<args, environ, envVars, m_dryRun, inited, g_ui, pid, sighup, umask,
                   sid, ctty, hist, runner, envHarnessVars>>

\* lines 115-118: forkoff(envVars) unless --no-fork
Branch(p) ==
    /\ pc[p] = "branch"
    /\ IF Daemonize(args) THEN Goto(p, "fork1") ELSE Goto(p, "sighupNoFork")
    /\ UNCHANGED <<args, environ, envVars, m_dryRun, inited, g_ui, pid, sighup, umask,
                   sid, ctty, hist, runner, envHarnessVars>>

IgnoreSighupNoFork_ResetsUmask(p) ==
    /\ pc[p] = "sighupNoFork"
    /\ sighup' = [sighup EXCEPT ![p] = "SIG_IGN"]
    /\ umask' = [umask EXCEPT ![p] = 0]
    /\ Record(p, "sighup")
    /\ Goto(p, "init")
    /\ UNCHANGED <<args, environ, envVars, m_dryRun, inited, g_ui, pid, sid, ctty,
                   runner, envHarnessVars>>

IgnoreSighupNoFork_Skipped(p) ==
    /\ pc[p] = "sighupNoFork"
    /\ Goto(p, "init")
    /\ UNCHANGED <<args, environ, envVars, m_dryRun, inited, g_ui, pid, sighup, umask, sid,
                   ctty, hist, runner, envHarnessVars>>

\* line 119: signal(SIGHUP, SIG_IGN) on the --no-fork path
IgnoreSighupNoFork(p) ==
    /\ pc[p] = "sighupNoFork"
    /\ sighup' = [sighup EXCEPT ![p] = "SIG_IGN"]
    /\ Record(p, "sighup")
    /\ Goto(p, "init")
    /\ UNCHANGED <<args, environ, envVars, m_dryRun, inited, g_ui, pid, umask, sid, ctty,
                   runner, envHarnessVars>>

\* --------------------------------------------------------------- forkoff()
\* The environment a fork child starts with.  fork() copies the parent's;
\* forkoff restores the snapshot after each fork because it does not rely
\* on that, so the child may also start with an emptied environment or
\* with another value for the tracked variables.
ForkChildEnvs(e) ==
    {e, [n \in EnvNames |-> NULL],
     [n \in EnvNames |-> IF n \in Tracked THEN Ptr(<<MaxChar>>) ELSE e[n]]}

\* pid = fork() succeeded: the child is a copy of the parent that sees 0.
ForkOk(p, child, next) ==
    /\ pc[child] = "none"
    /\ pc' = [pc EXCEPT ![p] = next, ![child] = next]
    /\ pid' = [pid EXCEPT ![p] = 1, ![child] = 0]
    /\ \E e \in ForkChildEnvs(environ[p]) : environ' = [environ EXCEPT ![child] = e]
    /\ envVars' = [envVars EXCEPT ![child] = envVars[p]]
    /\ m_dryRun' = [m_dryRun EXCEPT ![child] = m_dryRun[p]]
    /\ inited' = [inited EXCEPT ![child] = inited[p]]
    /\ g_ui' = [g_ui EXCEPT ![child] = g_ui[p]]
    /\ sighup' = [sighup EXCEPT ![child] = sighup[p]]
    /\ umask' = [umask EXCEPT ![child] = umask[p]]
    /\ sid' = [sid EXCEPT ![child] = sid[p]]
    /\ ctty' = [ctty EXCEPT ![child] = ctty[p]]
    /\ Record(p, "fork")
    /\ UNCHANGED <<args, status, runner, envHarnessVars>>

\* pid = fork() failed: no child, the caller sees -1.
ForkFail(p, next) ==
    /\ pid' = [pid EXCEPT ![p] = 0 - 1]
    /\ Record(p, "forkFailed")
    /\ Goto(p, next)
    /\ UNCHANGED <<args, environ, envVars, m_dryRun, inited, g_ui, sighup, umask, sid,
                   ctty, runner, envHarnessVars>>

AfterFork_PropagatesChild(p, next) ==
    /\ IF ForkFailed(pid[p]) THEN Exit(p, EXIT_FAILURE)
       ELSE IF IsForkParent(pid[p])
            THEN LET child == IF pc[p] = "afterFork1" THEN "child1" ELSE "child2" IN
                 /\ pc[child] = "done"
                 /\ Exit(p, status[child][1])
       ELSE Goto(p, next)
    /\ UNCHANGED <<args, environ, envVars, m_dryRun, inited, g_ui, pid, sighup, umask,
                   sid, ctty, hist, runner, envHarnessVars>>

\* lines 50-53 and 64-67: the caller of a failed fork exits 1, the parent
\* exits 0, the child goes on.
AfterFork(p, next) ==
    /\ IF ForkFailed(pid[p]) THEN Exit(p, EXIT_FAILURE)
       ELSE IF IsForkParent(pid[p]) THEN Exit(p, EXIT_SUCCESS)
       ELSE Goto(p, next)
    /\ UNCHANGED <<args, environ, envVars, m_dryRun, inited, g_ui, pid, sighup, umask,
                   sid, ctty, hist, runner, envHarnessVars>>

\* lines 56 and 70: restoreEnvVars(env)
Restore(p, next) ==
    /\ environ' = [environ EXCEPT ![p] = restoreEnvVars(envVars[p], @)]
    /\ Record(p, "restore")
    /\ Goto(p, next)
    /\ UNCHANGED <<args, envVars, m_dryRun, inited, g_ui, pid, sighup, umask, sid, ctty,
                   runner, envHarnessVars>>

\* line 49
Fork1(p) == pc[p] = "fork1" /\ ForkOk(p, "child1", "afterFork1")
Fork1Fail(p) == pc[p] = "fork1" /\ ForkFail(p, "afterFork1")
\* lines 50-53
AfterFork1(p) == pc[p] = "afterFork1" /\ AfterFork(p, "restore1")
\* line 56
Restore1(p) == pc[p] = "restore1" /\ Restore(p, "setsid")

\* line 58: setsid() succeeded: p leads a new session without a terminal
Setsid(p) ==
    /\ pc[p] = "setsid"
    /\ sid' = [sid EXCEPT ![p] = p]
    /\ ctty' = [ctty EXCEPT ![p] = FALSE]
    /\ Record(p, "setsid")
    /\ Goto(p, "sighup")
    /\ UNCHANGED <<args, environ, envVars, m_dryRun, inited, g_ui, pid, sighup, umask,
                   runner, envHarnessVars>>

SetsidFail_Unchecked(p) ==
    /\ pc[p] = "setsid"
    /\ Record(p, "setsidFailed")
    /\ Goto(p, "sighup")
    /\ UNCHANGED <<args, environ, envVars, m_dryRun, inited, g_ui, pid, sighup, umask,
                   sid, ctty, runner, envHarnessVars>>

\* lines 58-59: setsid() < 0 -> exit(EXIT_FAILURE)
SetsidFail(p) ==
    /\ pc[p] = "setsid"
    /\ Record(p, "setsidFailed")
    /\ Exit(p, EXIT_FAILURE)
    /\ UNCHANGED <<args, environ, envVars, m_dryRun, inited, g_ui, pid, sighup, umask,
                   sid, ctty, runner, envHarnessVars>>

\* line 61: signal(SIGHUP, SIG_IGN)
IgnoreSighup(p) ==
    /\ pc[p] = "sighup"
    /\ sighup' = [sighup EXCEPT ![p] = "SIG_IGN"]
    /\ Record(p, "sighup")
    /\ Goto(p, "fork2")
    /\ UNCHANGED <<args, environ, envVars, m_dryRun, inited, g_ui, pid, umask, sid, ctty,
                   runner, envHarnessVars>>

\* line 63
Fork2(p) == pc[p] = "fork2" /\ ForkOk(p, "child2", "afterFork2")
Fork2Fail(p) == pc[p] = "fork2" /\ ForkFail(p, "afterFork2")
\* lines 64-67
AfterFork2(p) == pc[p] = "afterFork2" /\ AfterFork(p, "restore2")
Restore2_Skipped(p) ==
    /\ pc[p] = "restore2"
    /\ Goto(p, "umask")
    /\ UNCHANGED <<args, environ, envVars, m_dryRun, inited, g_ui, pid, sighup, umask, sid,
                   ctty, hist, runner, envHarnessVars>>

\* line 70
Restore2(p) == pc[p] = "restore2" /\ Restore(p, "umask")

\* line 72: umask(0), then forkoff returns into main
Umask(p) ==
    /\ pc[p] = "umask"
    /\ umask' = [umask EXCEPT ![p] = 0]
    /\ Record(p, "umask")
    /\ Goto(p, "init")
    /\ UNCHANGED <<args, environ, envVars, m_dryRun, inited, g_ui, pid, sighup, sid, ctty,
                   runner, envHarnessVars>>

\* ------------------------------------------------------ main(), continued
\* line 122: State::state()->init() succeeded
InitState(p) ==
    /\ pc[p] = "init"
    /\ inited' = [inited EXCEPT ![p] = TRUE]
    /\ Record(p, "init")
    /\ Goto(p, "configureUI")
    /\ UNCHANGED <<args, environ, envVars, m_dryRun, g_ui, pid, sighup, umask, sid, ctty,
                   runner, envHarnessVars>>

\* lines 122-125: State::state()->init() failed -> return 1
InitStateFail(p) ==
    /\ pc[p] = "init"
    /\ hist' = [hist EXCEPT ![p] = @ \o <<"init", "initFailed">>]
    /\ Exit(p, EXIT_FAILURE)
    /\ UNCHANGED <<args, environ, envVars, m_dryRun, inited, g_ui, pid, sighup, umask,
                   sid, ctty, runner, envHarnessVars>>

\* lines 127-133: g_ui is created and configured; the label and the
\* post-exit command are passed through unread.
ConfigureUI(p) ==
    /\ pc[p] = "configureUI"
    /\ g_ui' = [g_ui EXCEPT ![p] = [exists |-> TRUE, m_noExit |-> UINoExit(args, m_dryRun[p])]]
    /\ Record(p, "configureUI")
    /\ Goto(p, "runUI")
    /\ UNCHANGED <<args, environ, envVars, m_dryRun, inited, pid, sighup, umask, sid, ctty,
                   runner, envHarnessVars>>

\* line 135: g_ui->run() is entered; it blocks until the UI is done
RunUI(p) ==
    /\ pc[p] = "runUI"
    /\ Record(p, "runUI")
    /\ Goto(p, "inUI")
    /\ UNCHANGED <<args, environ, envVars, m_dryRun, inited, g_ui, pid, sighup, umask,
                   sid, ctty, runner, envHarnessVars>>

\* line 135: g_ui->run() returns
UIReturn(p) ==
    /\ pc[p] = "inUI"
    /\ Record(p, "uiReturned")
    /\ Goto(p, "vtSwitch")
    /\ UNCHANGED <<args, environ, envVars, m_dryRun, inited, g_ui, pid, sighup, umask,
                   sid, ctty, runner, envHarnessVars>>

\* lines 140-145: CProcess proc("/bin/sh", {"-c", cmd}); proc.runAsync();
\* runAsync either spawns the subprocess or fails to; its result is dropped.
LaunchVtSwitch(p) ==
    /\ pc[p] = "vtSwitch"
    /\ VtSwitchWanted(args.vt, m_dryRun[p])
    /\ \E st \in {"spawned", "failedToLaunch"} :
          runner' = Append(runner, [by |-> p, cmd |-> ChvtCommand(args.vt.val), st |-> st])
    /\ Record(p, "runAsync")
    /\ Goto(p, "return")
    /\ UNCHANGED <<args, environ, envVars, m_dryRun, inited, g_ui, pid, sighup, umask,
                   sid, ctty, envHarnessVars>>

\* line 140: the condition is false, nothing is launched
SkipVtSwitch(p) ==
    /\ pc[p] = "vtSwitch"
    /\ ~VtSwitchWanted(args.vt, m_dryRun[p])
    /\ Goto(p, "return")
    /\ UNCHANGED <<args, environ, envVars, m_dryRun, inited, g_ui, pid, sighup, umask,
                   sid, ctty, hist, runner, envHarnessVars>>

Return_WaitsForSubprocess(p) ==
    /\ pc[p] = "return"
    /\ \A i \in 1..Len(runner) :
          runner[i].by = p => runner[i].st \in {"failedToLaunch", "exited0", "exitedNonzero"}
    /\ Exit(p, EXIT_SUCCESS)
    /\ UNCHANGED <<args, environ, envVars, m_dryRun, inited, g_ui, pid, sighup, umask,
                   sid, ctty, hist, runner, envHarnessVars>>

\* line 147: return 0
Return(p) ==
    /\ pc[p] = "return"
    /\ Exit(p, EXIT_SUCCESS)
    /\ UNCHANGED <<args, environ, envVars, m_dryRun, inited, g_ui, pid, sighup, umask,
                   sid, ctty, hist, runner, envHarnessVars>>

\* The launched /bin/sh runs on its own: it starts, then ends with success
\* or failure (sudo -n may refuse, chvt may fail).
SubprocessStep(i) ==
    /\ i \in 1..Len(runner)
    /\ \/ /\ runner[i].st = "spawned"
          /\ runner' = [runner EXCEPT ![i].st = "running"]
       \/ /\ runner[i].st = "running"
          /\ \E st \in {"exited0", "exitedNonzero"} : runner' = [runner EXCEPT ![i].st = st]
    /\ UNCHANGED <<args, pc, status, environ, envVars, m_dryRun, inited, g_ui, pid, sighup,
                   umask, sid, ctty, hist, envHarnessVars>>

Next ==
    \/ \E p \in Procs :
          \/ Parse(p) \/ Help(p) \/ MarkDryRun(p) \/ Capture(p) \/ CheckHIS(p)
          \/ Branch(p) \/ IgnoreSighupNoFork(p)
          \/ Fork1(p) \/ Fork1Fail(p) \/ AfterFork1(p) \/ Restore1(p)
          \/ Setsid(p) \/ SetsidFail(p) \/ IgnoreSighup(p)
          \/ Fork2(p) \/ Fork2Fail(p) \/ AfterFork2(p) \/ Restore2(p) \/ Umask(p)
          \/ InitState(p) \/ InitStateFail(p) \/ ConfigureUI(p) \/ RunUI(p) \/ UIReturn(p)
          \/ LaunchVtSwitch(p) \/ SkipVtSwitch(p) \/ Return(p)
    \/ \E i \in 1..Len(runner) : SubprocessStep(i)

\* The steps image p takes by itself: every statement but the return of
\* the UI, which is the UI's doing.
OwnStep(p) ==
    \/ Parse(p) \/ Help(p) \/ MarkDryRun(p) \/ Capture(p) \/ CheckHIS(p)
    \/ Branch(p) \/ IgnoreSighupNoFork(p)
    \/ Fork1(p) \/ Fork1Fail(p) \/ AfterFork1(p) \/ Restore1(p)
    \/ Setsid(p) \/ SetsidFail(p) \/ IgnoreSighup(p)
    \/ Fork2(p) \/ Fork2Fail(p) \/ AfterFork2(p) \/ Restore2(p) \/ Umask(p)
    \/ InitState(p) \/ InitStateFail(p) \/ ConfigureUI(p) \/ RunUI(p)
    \/ LaunchVtSwitch(p) \/ SkipVtSwitch(p) \/ Return(p)

Spec == Init /\ [][Next]_vars

\* Every image is scheduled: a statement it can execute is eventually
\* executed, and the UI it waits in eventually returns.  The launched
\* subprocess is owed nothing.
\* Progress does not read XDG_RUNTIME_DIR, WAYLAND_DISPLAY or --no-exit,
\* so the fair runs start with those fixed.
FairInit ==
    /\ Init
    /\ ~args.noExit
    /\ \A n \in Tracked \ {HIS_NAME} : environ["orig"][n] = NULL

FairSpec ==
    /\ FairInit
    /\ [][Next]_vars
    /\ \A p \in Procs : WF_vars(OwnStep(p)) /\ WF_vars(UIReturn(p))

\* ------------------------------------------------- capture/restore harness
\* captureEnvVars and restoreEnvVars on their own: the snapshot is taken in
\* a source environment srcEnv and restored, twice, into a target
\* environment that starts as tgtEnv0; tgtEnv1 is the target after the
\* first restore and tgtEnv the target now.  No process image runs.
InitEnv ==
    /\ args = [parseOk |-> FALSE, help |-> FALSE, dryRun |-> FALSE, noExit |-> FALSE,
               noFork |-> FALSE, vt |-> [has |-> FALSE, val |-> 0]]
    /\ pc = [p \in Procs |-> "none"]
    /\ status = [p \in Procs |-> <<>>]
    /\ environ = [p \in Procs |-> [n \in EnvNames |-> NULL]]
    /\ envVars = [p \in Procs |-> EmptySEnvVars]
    /\ m_dryRun = [p \in Procs |-> FALSE]
    /\ inited = [p \in Procs |-> FALSE]
    /\ g_ui = [p \in Procs |-> NoUI]
    /\ pid = [p \in Procs |-> 0]
    /\ sighup = [p \in Procs |-> "SIG_DFL"]
    /\ umask = [p \in Procs |-> 18]
    /\ sid = [p \in Procs |-> "shell"]
    /\ ctty = [p \in Procs |-> FALSE]
    /\ hist = [p \in Procs |-> <<>>]
    /\ runner = <<>>
    /\ srcEnv \in Envs
    /\ tgtEnv0 \in Envs
    /\ tgtEnv1 = tgtEnv0
    /\ tgtEnv = tgtEnv0
    /\ snap = EmptySEnvVars
    /\ epc = "capture"

\* snap = captureEnvVars() in the source environment
EnvCapture ==
    /\ epc = "capture"
    /\ snap' = captureEnvVars(srcEnv)
    /\ epc' = "restore"
    /\ UNCHANGED <<procVars, srcEnv, tgtEnv0, tgtEnv1, tgtEnv>>

\* restoreEnvVars(snap) in the target environment
EnvRestore ==
    /\ epc = "restore"
    /\ tgtEnv' = restoreEnvVars(snap, tgtEnv)
    /\ tgtEnv1' = tgtEnv'
    /\ epc' = "restoreAgain"
    /\ UNCHANGED <<procVars, srcEnv, tgtEnv0, snap>>

\* restoreEnvVars(snap) a second time in the same environment
EnvRestoreAgain ==
    /\ epc = "restoreAgain"
    /\ tgtEnv' = restoreEnvVars(snap, tgtEnv)
    /\ epc' = "done"
    /\ UNCHANGED <<procVars, srcEnv, tgtEnv0, tgtEnv1, snap>>

NextEnv == EnvCapture \/ EnvRestore \/ EnvRestoreAgain

SpecEnv == InitEnv /\ [][NextEnv]_vars

\* ================================================================== claims
Ops(p) == {hist[p][i] : i \in 1..Len(hist[p])}

\* Shared-state initialization or UI execution has begun in image p.
Began(p) == Did(p, "init") \/ Did(p, "runUI")

\* The statements from State::state()->init() on.
FromInit == {"init", "configureUI", "runUI", "inUI", "vtSwitch", "return"}

HISUnsetOrEmpty(e) == e[HIS_NAME] = NULL \/ e[HIS_NAME] = Ptr(<<>>)

\* C1: over the images of one invocation at most one has begun state
\* initialization or UI execution; it is the second-fork child when
\* daemonization runs and the original process under --no-fork; no fork
\* parent and no image whose fork or setsid failed reaches State init or
\* g_ui->run().
C1_OnlySurvivorInitializes ==
    LET survivor == IF args.noFork THEN "orig" ELSE "child2" IN
    /\ Cardinality({p \in Procs : Began(p) \/ pc[p] \in FromInit}) <= 1
    /\ \A p \in Procs : (Began(p) \/ pc[p] \in FromInit) => p = survivor
    /\ \A p \in Procs :
          Ops(p) \cap {"fork", "forkFailed", "setsidFailed"} # {}
              => ~Began(p) /\ pc[p] \notin FromInit

C1_Witness ==
    /\ Did("child2", "runUI")
    /\ pc["orig"] = "done" /\ Did("orig", "fork")
    /\ pc["child1"] = "done" /\ Did("child1", "fork")

\* C2: with HYPRLAND_INSTANCE_SIGNATURE unset or empty (parsing succeeded,
\* no --help) the process exits with status 1 and no fork, setsid, SIGHUP
\* disposition change, state initialization or UI run has happened.
C2_MissingSignatureExitsBeforeFork ==
    (args.parseOk /\ ~args.help /\ HISUnsetOrEmpty(environ["orig"])) =>
        /\ pc["orig"] \in {"parse", "help", "dryrun", "capture", "checkHIS", "done"}
        /\ pc["orig"] = "done" => status["orig"] = <<EXIT_FAILURE>>
        /\ \A p \in Procs :
              /\ Ops(p) \cap {"fork", "forkFailed", "setsid", "setsidFailed", "sighup",
                               "init", "configureUI", "runUI"} = {}
              /\ sighup[p] = "SIG_DFL"
              /\ ~inited[p]
              /\ p # "orig" => pc[p] = "none"

C2_Witness ==
    /\ args.parseOk /\ ~args.help /\ ~args.noFork
    /\ environ["orig"][HIS_NAME] = Ptr(<<>>)
    /\ pc["orig"] = "done" /\ status["orig"] = <<EXIT_FAILURE>>
    /\ Did("orig", "capture")

\* C3: with --help (any other flags, any environment) the process exits
\* with status 0 having performed no environment capture, fork, signal
\* disposition change, dry-run marking, state initialization, UI run or VT
\* switch.
C3_HelpHasNoSideEffect ==
    args.help =>
        /\ pc["orig"] \in {"parse", "help", "done"}
        /\ pc["orig"] = "done" => status["orig"] = <<EXIT_SUCCESS>>
        /\ runner = <<>>
        /\ \A p \in Procs :
              /\ hist[p] = <<>>
              /\ envVars[p] = EmptySEnvVars
              /\ ~m_dryRun[p]
              /\ sighup[p] = "SIG_DFL"
              /\ ~inited[p]
              /\ g_ui[p] = NoUI
              /\ p # "orig" => pc[p] = "none"

C3_Witness ==
    /\ args.help /\ args.dryRun /\ args.vt.has /\ args.vt.val > 0
    /\ environ["orig"][HIS_NAME] = NULL
    /\ environ["orig"][XDG_NAME] # NULL
    /\ pc["orig"] = "done" /\ status["orig"] = <<EXIT_SUCCESS>>

\* C4: with --dry-run, for every --vt, --no-exit and --no-fork, the chvt
\* subprocess launch is never invoked in any image, and the UI has
\* m_noExit = true before it runs.
C4_DryRunNeverSwitchesVt ==
    args.dryRun =>
        /\ runner = <<>>
        /\ \A p \in Procs :
              /\ ~Did(p, "runAsync")
              /\ (pc[p] = "runUI" \/ Did(p, "runUI")) => g_ui[p].exists /\ g_ui[p].m_noExit

C4_Witness ==
    /\ args.dryRun /\ ~args.noExit /\ args.vt.has /\ args.vt.val > 0
    /\ \E p \in Procs : pc[p] = "done" /\ Did(p, "uiReturned") /\ g_ui[p].m_noExit

\* The virtual terminal a launched command targets: the decimal number
\* after "sudo -n chvt ".
DigitValue(ch) == CHOOSE d \in 0..9 : Digit(d) = ch

RECURSIVE ParseNat(_)
ParseNat(ds) ==
    IF Len(ds) = 1 THEN DigitValue(ds[1])
    ELSE 10 * ParseNat(SubSeq(ds, 1, Len(ds) - 1)) + DigitValue(ds[Len(ds)])

TargetsVt(cmd, n) ==
    /\ cmd.file = "/bin/sh"
    /\ Len(cmd.args) = 2 /\ cmd.args[1] = "-c"
    /\ cmd.args[2].prefix = "sudo -n chvt "
    /\ Len(cmd.args[2].number) > 0
    /\ \A i \in 1..Len(cmd.args[2].number) : cmd.args[2].number[i] # "-"
    /\ ParseNat(cmd.args[2].number) = n

\* C5: with --no-fork and a non-empty HYPRLAND_INSTANCE_SIGNATURE no fork
\* is ever performed, the original process sets SIGHUP to ignore, and the
\* step it takes right after that is shared-state initialization: the
\* invoked image itself initializes state and runs the UI.
C5_NoForkRunsInForeground ==
    (args.parseOk /\ ~args.help /\ args.noFork /\ ~HISUnsetOrEmpty(environ["orig"])) =>
        /\ \A p \in Procs :
              /\ Ops(p) \cap {"fork", "forkFailed", "setsid", "setsidFailed"} = {}
              /\ p # "orig" => pc[p] = "none" /\ hist[p] = <<>>
        /\ pc["orig"] \in FromInit \cup {"done"} => sighup["orig"] = "SIG_IGN"
        /\ \A i \in 1..Len(hist["orig"]) :
              hist["orig"][i] = "sighup" =>
                  IF i = Len(hist["orig"]) THEN pc["orig"] = "init"
                  ELSE hist["orig"][i + 1] = "init"
        /\ Did("orig", "init") => Did("orig", "sighup")
        /\ pc["orig"] = "done" => Did("orig", "init")

C5_Witness ==
    /\ args.noFork
    /\ Did("orig", "sighup") /\ Did("orig", "init") /\ Did("orig", "runUI")
    /\ pc["orig"] = "done" /\ status["orig"] = <<EXIT_SUCCESS>>

\* C6: with --vt N, N > 0, no --dry-run, once the UI run has returned the
\* subprocess launch is invoked exactly once, by the process that ran the
\* UI, with a command targeting virtual terminal N; that process then exits
\* with status 0 whatever the launched subprocess does (not launched, not
\* started, running, finished, failed).
C6_VtSwitchOnceThenExit0 ==
    (args.vt.has /\ args.vt.val > 0 /\ ~args.dryRun) =>
        /\ Len(runner) <= 1
        /\ \A i \in 1..Len(runner) :
              /\ Did(runner[i].by, "uiReturned")
              /\ TargetsVt(runner[i].cmd, args.vt.val)
        /\ \A p \in Procs :
              /\ (Did(p, "uiReturned") /\ pc[p] \in {"return", "done"}) =>
                    /\ Len(runner) = 1
                    /\ runner[1].by = p
                    /\ Len(SelectSeq(hist[p], LAMBDA op : op = "runAsync")) = 1
              /\ (Did(p, "uiReturned") /\ pc[p] = "done") => status[p] = <<EXIT_SUCCESS>>
              /\ Did(p, "runAsync") => Did(p, "uiReturned")

C6_Witness ==
    /\ args.vt.has /\ args.vt.val = 12 /\ ~args.dryRun
    /\ \E p \in Procs :
          /\ pc[p] = "done" /\ status[p] = <<EXIT_SUCCESS>>
          /\ Len(runner) = 1 /\ runner[1].by = p /\ runner[1].st = "spawned"

\* C7: if the first fork fails, the process that attempted it exits with
\* failure status and no environment restoration, setsid, SIGHUP
\* disposition change, state initialization or UI run occurs in any image.
C7_FirstForkFailureIsClean ==
    Did("orig", "forkFailed") =>
        /\ pc["orig"] \in {"afterFork1", "done"}
        /\ pc["orig"] = "done" => status["orig"] = <<EXIT_FAILURE>>
        /\ \A p \in Procs :
              /\ Ops(p) \cap {"restore", "setsid", "setsidFailed", "sighup", "umask", "init",
                               "configureUI", "runUI"} = {}
              /\ sighup[p] = "SIG_DFL"
              /\ sid[p] = "shell"
              /\ ~inited[p]
              /\ p # "orig" => pc[p] = "none"

C7_Witness ==
    /\ Did("orig", "forkFailed")
    /\ pc["orig"] = "done" /\ status["orig"] = <<EXIT_FAILURE>>

\* An image hit one of the failures that end it with status 1.
HitFailure(p) ==
    \/ p = "orig" /\ ~args.parseOk
    \/ p = "orig" /\ args.parseOk /\ ~args.help /\ HISUnsetOrEmpty(environ["orig"])
    \/ Did(p, "forkFailed")
    \/ Did(p, "setsidFailed")
    \/ Did(p, "initFailed")

\* C8: every image exits with status 0 or 1; with 1 exactly when it hit an
\* argument-parse failure, a missing or empty signature, a fork failure, a
\* setsid failure or a state-initialization failure; otherwise (help shown,
\* fork parent, UI completed) with 0.
C8_ExitStatus ==
    \A p \in Procs :
        /\ pc[p] # "done" => status[p] = <<>>
        /\ pc[p] = "done" =>
              /\ status[p] \in {<<EXIT_SUCCESS>>, <<EXIT_FAILURE>>}
              /\ status[p] = <<EXIT_FAILURE>> <=> HitFailure(p)
              /\ status[p] = <<EXIT_SUCCESS>> =>
                    \/ p = "orig" /\ args.help
                    \/ Did(p, "fork")
                    \/ Did(p, "uiReturned")

C8_Witness ==
    /\ pc["orig"] = "done" /\ status["orig"] = <<EXIT_SUCCESS>>
    /\ pc["child1"] = "done" /\ status["child1"] = <<EXIT_SUCCESS>>
    /\ pc["child2"] = "done" /\ status["child2"] = <<EXIT_FAILURE>>
    /\ Did("child2", "initFailed")

\* ---- claims about captureEnvVars / restoreEnvVars, checked under SpecEnv
Restored == epc \in {"restoreAgain", "done"}

\* The target already holds a value, different from the source's, for each
\* of the three tracked variables.
TargetDiffers == \A n \in Tracked : tgtEnv0[n].isSet /\ tgtEnv0[n] # srcEnv[n]

NonEmptyIn(e, n) == e[n].isSet /\ e[n].val # <<>>

\* C9 as stated: for every source and every target holding different
\* values, capture on the source then restore on the target leaves the
\* three tracked variables of the target exactly as they are in the source
\* and every other variable of the target unchanged.
C9_AsStated ==
    (Restored /\ TargetDiffers) =>
        /\ \A n \in Tracked : tgtEnv1[n] = srcEnv[n]
        /\ \A n \in EnvNames \ Tracked : tgtEnv1[n] = tgtEnv0[n]

\* C9 (amended): capture on the source then restore on such a target
\* leaves every tracked variable that is set and non-empty in the source
\* equal to the source's value, every tracked variable that is unset or
\* empty in the source at the target's previous value, and every other
\* variable of the target unchanged.
C9_OverwriteNonEmpty ==
    (Restored /\ TargetDiffers) =>
        /\ \A n \in Tracked :
              tgtEnv1[n] = IF NonEmptyIn(srcEnv, n) THEN srcEnv[n] ELSE tgtEnv0[n]
        /\ \A n \in EnvNames \ Tracked : tgtEnv1[n] = tgtEnv0[n]

C9_Witness ==
    /\ Restored /\ TargetDiffers
    /\ \A n \in Tracked : NonEmptyIn(srcEnv, n) /\ tgtEnv1[n] = srcEnv[n]
    /\ tgtEnv0[OTHER_NAME].isSet /\ ~srcEnv[OTHER_NAME].isSet
    /\ tgtEnv1[OTHER_NAME] = tgtEnv0[OTHER_NAME]

\* C10: for a snapshot captured where a tracked variable V was unset,
\* restoreEnvVars never writes V in the target: V keeps the state it had,
\* so a V that is unset in the target stays unset (no placeholder, no
\* empty string).
C10_UnsetIsNotWritten ==
    Restored =>
        \A n \in Tracked :
            ~srcEnv[n].isSet =>
                /\ tgtEnv1[n] = tgtEnv0[n]
                /\ tgtEnv[n] = tgtEnv0[n]
                /\ ~tgtEnv0[n].isSet => ~tgtEnv1[n].isSet /\ ~tgtEnv[n].isSet

C10_Witness ==
    /\ Restored
    /\ ~srcEnv[XDG_NAME].isSet /\ ~tgtEnv0[XDG_NAME].isSet /\ ~tgtEnv1[XDG_NAME].isSet
    /\ NonEmptyIn(srcEnv, HIS_NAME)
    /\ tgtEnv0[HIS_NAME] # srcEnv[HIS_NAME] /\ tgtEnv1[HIS_NAME] = srcEnv[HIS_NAME]

\* C11: restoreEnvVars is idempotent: for every snapshot and every
\* environment, restoring twice yields the environment that restoring once
\* yields.
C11_RestoreIdempotent == epc = "done" => tgtEnv = tgtEnv1

C11_Witness ==
    /\ epc = "done"
    /\ snap.hyprlandInstanceSignature # <<>> /\ snap.xdgRuntimeDir = <<>>
    /\ tgtEnv1 # tgtEnv0
    /\ tgtEnv = tgtEnv1

\* ---- claims about the lifecycle, checked under Spec
\* Image p is at or past shared-state initialization.
AtOrPastInit(p) == pc[p] \in FromInit \/ Began(p)

\* C12: every image at or past shared-state initialization has SIGHUP
\* ignored, on the daemonized path (set in the first-fork child, inherited
\* by the second-fork child) and on the --no-fork path.
C12_SighupIgnoredFromInit ==
    /\ \A p \in Procs : AtOrPastInit(p) => sighup[p] = "SIG_IGN"
    /\ pc["child2"] # "none" =>
          /\ sighup["child2"] = "SIG_IGN"
          /\ Did("child1", "sighup")
          /\ ~Did("child2", "sighup")
    /\ (args.noFork /\ AtOrPastInit("orig")) => Did("orig", "sighup")

C12_Witness ==
    /\ args.noFork
    /\ pc["orig"] = "inUI" /\ sighup["orig"] = "SIG_IGN"

\* C13: on the daemonized path the image that initializes state and runs
\* the UI is never a session leader: it belongs to the session created by
\* the first-fork child's setsid, whose leader is the first-fork child
\* (which exits with status 0 after the second fork), and it has no
\* controlling terminal.
C13_DaemonIsNotSessionLeader ==
    ~args.noFork =>
        \A p \in Procs :
            AtOrPastInit(p) =>
                /\ sid[p] # p
                /\ sid[p] = "child1"
                /\ sid["child1"] = "child1"
                /\ Did("child1", "setsid")
                /\ ~ctty[p]
                /\ pc["child1"] \in {"afterFork2", "done"}
                /\ pc["child1"] = "done" => status["child1"] = <<EXIT_SUCCESS>>

C13_Witness ==
    /\ ~args.noFork
    /\ pc["child2"] = "inUI" /\ sid["child2"] = "child1" /\ ~ctty["child2"]
    /\ pc["child1"] = "done" /\ status["child1"] = <<EXIT_SUCCESS>>

\* The snapshot field that holds tracked variable n.
FieldOf(env, n) ==
    IF n = HIS_NAME THEN env.hyprlandInstanceSignature
    ELSE IF n = XDG_NAME THEN env.xdgRuntimeDir
    ELSE env.waylandDisplay

\* C14: although a fork may clear or alter the child's environment, in
\* the image that reaches state initialization every tracked variable
\* whose captured value was non-empty has exactly its captured value;
\* HYPRLAND_INSTANCE_SIGNATURE is non-empty and equal to the value
\* validated before forking, on both paths.  The snapshot is captured
\* before any fork and never changes afterwards.
C14_EnvironmentSurvivesForks ==
    /\ \A p \in Procs :
          AtOrPastInit(p) =>
              /\ \A n \in Tracked :
                    FieldOf(envVars[p], n) # <<>> => environ[p][n] = Ptr(FieldOf(envVars[p], n))
              /\ NonEmptyIn(environ[p], HIS_NAME)
              /\ environ[p][HIS_NAME] = environ["orig"][HIS_NAME]
    /\ ~Did("orig", "restore")
    /\ \A p \in Procs :
          (pc[p] # "none" /\ Did("orig", "capture")) =>
              envVars[p] = captureEnvVars(environ["orig"])
    /\ \A p \in Procs : Ops(p) \cap {"fork", "forkFailed"} # {} => Did("orig", "capture")
    /\ \A i \in 1..Len(hist["orig"]) :
          hist["orig"][i] \in {"fork", "forkFailed"} =>
              \E j \in 1..(i - 1) : hist["orig"][j] = "capture"

\* The second fork emptied the daemon's environment and the second
\* restore put the captured values back.
C14_Witness ==
    /\ pc["child2"] = "init"
    /\ environ["child1"][OTHER_NAME].isSet /\ ~environ["child2"][OTHER_NAME].isSet
    /\ envVars["child2"].xdgRuntimeDir # <<>> /\ envVars["child2"].waylandDisplay = <<>>
    /\ environ["child2"][HIS_NAME] = environ["orig"][HIS_NAME]
    /\ environ["child2"][XDG_NAME] = environ["orig"][XDG_NAME]
    /\ ~environ["child2"][WAYLAND_NAME].isSet

Last(q) == q[Len(q)]

Count(q, op) == Len(SelectSeq(q, LAMBDA x : x = op))

\* C15: an image in which the second fork, setsid or state initialization
\* fails exits with status 1 and attempts nothing after the failure: after
\* a setsid failure no SIGHUP change and no second fork; after a
\* second-fork failure no second restore and no umask reset; after any of
\* the three no UI configuration, UI run or VT switch.  A failed fork
\* creates no child image.
C15_FailureStopsTheImage ==
    /\ \A p \in Procs :
          Did(p, "setsidFailed") =>
              /\ Last(hist[p]) = "setsidFailed"
              /\ pc[p] = "done" /\ status[p] = <<EXIT_FAILURE>>
              /\ sighup[p] = "SIG_DFL"
              /\ pc["child2"] = "none"
    /\ Did("child1", "forkFailed") =>
          /\ Last(hist["child1"]) = "forkFailed"
          /\ pc["child1"] \in {"afterFork2", "done"}
          /\ pc["child1"] = "done" => status["child1"] = <<EXIT_FAILURE>>
          /\ Count(hist["child1"], "restore") = 1
          /\ umask["child1"] # 0
          /\ pc["child2"] = "none"
    /\ Did("orig", "forkFailed") => pc["child1"] = "none" /\ pc["child2"] = "none"
    /\ \A p \in Procs :
          Did(p, "initFailed") =>
              /\ Last(hist[p]) = "initFailed"
              /\ pc[p] = "done" /\ status[p] = <<EXIT_FAILURE>>
              /\ ~inited[p]
    /\ \A p \in Procs :
          Ops(p) \cap {"setsidFailed", "forkFailed", "initFailed"} # {} =>
              /\ g_ui[p] = NoUI
              /\ Ops(p) \cap {"configureUI", "runUI", "uiReturned", "runAsync"} = {}
              /\ \A i \in 1..Len(runner) : runner[i].by # p

C15_Witness ==
    /\ Did("child1", "forkFailed")
    /\ pc["child1"] = "done" /\ status["child1"] = <<EXIT_FAILURE>>
    /\ pc["orig"] = "done"
    /\ sighup["child1"] = "SIG_IGN"

\* C16: the subprocess launch is invoked only if a VT number was given, is
\* strictly positive and dry-run is not active, and only after the UI run
\* has returned in the same process; with --vt absent, zero or negative it
\* is never invoked, and never before or during the UI run, nor more than
\* once per invocation of the program.
C16_VtSwitchOnlyAfterUI ==
    /\ Len(runner) <= 1
    /\ Len(runner) = Count(hist["orig"], "runAsync") + Count(hist["child1"], "runAsync")
                         + Count(hist["child2"], "runAsync")
    /\ (~args.vt.has \/ args.vt.val <= 0 \/ args.dryRun) => runner = <<>>
    /\ \A i \in 1..Len(runner) :
          /\ args.vt.has /\ args.vt.val > 0 /\ ~args.dryRun /\ ~m_dryRun[runner[i].by]
          /\ pc[runner[i].by] \in {"return", "done"}
    /\ \A p \in Procs :
          \A i \in 1..Len(hist[p]) :
              hist[p][i] = "runAsync" =>
                  /\ i > 1 /\ hist[p][i - 1] = "uiReturned"
                  /\ \E j \in 1..(i - 1) : hist[p][j] = "runUI"
    /\ \A p \in Procs : pc[p] \in {"runUI", "inUI"} => \A i \in 1..Len(runner) : runner[i].by # p

C16_Witness ==
    /\ args.vt.has /\ args.vt.val = 1 /\ args.noExit
    /\ Len(runner) = 1 /\ runner[1].st = "exitedNonzero"
    /\ pc[runner[1].by] = "done"

\* The exit status the invoked process owes to its own steps alone.
OrigStatus ==
    IF ~args.parseOk THEN EXIT_FAILURE
    ELSE IF args.help THEN EXIT_SUCCESS
    ELSE IF HISUnsetOrEmpty(environ["orig"]) THEN EXIT_FAILURE
    ELSE IF Did("orig", "forkFailed") THEN EXIT_FAILURE
    ELSE EXIT_SUCCESS

\* C18: on the daemonized path the exit status of the invoked process is
\* decided by argument parsing, --help, the signature check and the
\* outcome of the first fork alone: once the first fork succeeded it exits
\* with status 0, whatever state its descendants are in (it never waits
\* for them), so its status 0 does not imply that the UI ever runs.
C18_OriginalStatusIgnoresDescendants ==
    ~args.noFork =>
        /\ pc["orig"] = "done" => status["orig"] = <<OrigStatus>>
        /\ Did("orig", "fork") =>
              /\ pc["orig"] \in {"afterFork1", "done"}
              /\ pc["orig"] = "afterFork1" => ENABLED AfterFork1("orig")
              /\ pc["orig"] = "done" => status["orig"] = <<EXIT_SUCCESS>>

\* The invoked process exited 0 although setsid failed in its child and no
\* image ever initialized state or ran the UI.
C18_Witness ==
    /\ ~args.noFork
    /\ pc["orig"] = "done" /\ status["orig"] = <<EXIT_SUCCESS>>
    /\ pc["child1"] = "done" /\ status["child1"] = <<EXIT_FAILURE>>
    /\ Did("child1", "setsidFailed")
    /\ pc["child2"] = "none"
    /\ \A p \in Procs : ~Began(p)

\* C19: on the --no-fork path no new session is created, the
\* file-creation mask keeps its inherited value and restoreEnvVars never
\* writes the environment; the umask reset, setsid and both restores happen
\* only on the daemonized path, the umask reset only in the second-fork
\* child.
C19_NoForkLeavesProcessAlone ==
    /\ args.noFork =>
          \A p \in Procs :
              /\ Ops(p) \cap {"setsid", "setsidFailed", "restore", "umask"} = {}
              /\ sid[p] = "shell"
              \* child1 is never created here: it still holds the inherited mask
              /\ umask[p] = umask["child1"] /\ umask[p] # 0
              /\ p = "orig" => ctty[p]
    /\ \A p \in Procs :
          /\ Ops(p) \cap {"setsid", "restore", "umask"} # {} => ~args.noFork
          /\ Did(p, "setsid") => p = "child1"
          /\ Did(p, "restore") => p \in {"child1", "child2"} /\ Count(hist[p], "restore") = 1
          /\ Did(p, "umask") => p = "child2"
          /\ umask[p] = 0 <=> Did(p, "umask")

C19_Witness ==
    /\ args.noFork
    /\ pc["orig"] = "done" /\ Did("orig", "uiReturned")
    /\ sighup["orig"] = "SIG_IGN"
    /\ umask["orig"] # 0 /\ sid["orig"] = "shell" /\ ctty["orig"]

\* A fork parent's next step is its exit with status 0, nothing else.
ForkParentExitsNext ==
    \A p \in Procs :
        (Len(hist[p]) > 0 /\ Last(hist[p]) = "fork" /\ pc'[p] # pc[p]) =>
            /\ pc[p] \in {"afterFork1", "afterFork2"}
            /\ pc'[p] = "done" /\ status'[p] = <<EXIT_SUCCESS>>
            /\ hist'[p] = hist[p]
            /\ environ'[p] = environ[p] /\ sid'[p] = sid[p] /\ sighup'[p] = sighup[p]
            /\ umask'[p] = umask[p] /\ inited'[p] = inited[p] /\ g_ui'[p] = g_ui[p]

\* Outside the UI run a live image can always take its next step by
\* itself; inside the UI run it can only wait for the UI to return.
OnlyUIBlocks ==
    \A p \in Procs :
        /\ pc[p] \notin {"none", "done", "inUI"} => ENABLED OwnStep(p)
        /\ pc[p] = "inUI" => ~ENABLED OwnStep(p)

\* C17: if the UI run eventually returns and steps are scheduled fairly,
\* every image created by an invocation eventually exits; each fork parent
\* exits as its very next step after the fork returns; and the only step
\* at which an image can block is the UI run, never the subprocess launch.
C17_EveryImageExits ==
    /\ \A p \in Procs : (pc[p] # "none") ~> (pc[p] = "done")
    /\ [][ForkParentExitsNext]_vars
    /\ []OnlyUIBlocks

\* The daemon exited while the subprocess it launched had not started, and
\* both fork parents are gone.
C17_Witness ==
    /\ \A p \in Procs : pc[p] = "done"
    /\ Did("child2", "runAsync")
    /\ Len(runner) = 1 /\ runner[1].st = "spawned"

====
